---- MODULE Spec2Model ----
(***************************************************************************)
(* treexml: an element-tree layer over an XML event reader and writer.     *)
(* The model covers Document::parse / Element::parse (tree builder),       *)
(* Document::write_with / Element::write (tree serializer) and             *)
(* Element::find / find_path (path query).                                 *)
(*                                                                         *)
(* Strings are sequences of one-character strings, so that concatenation,  *)
(* splitting and comparison are computed and not assumed.                  *)
(* Option<T> is a sequence of length 0 (None) or 1 (Some).                 *)
(***************************************************************************)
EXTENDS Integers, Sequences, FiniteSets, TLC

\* ------------------------------------------------------------------ bounds
\* events the reader delivers in one parse
MaxEvents == 6
\* children per element in the trees that are written or queried
MaxKids == 2
\* characters in a path string given to find
MaxPathLen == 3
\* levels of elements in the trees that are written or queried
MaxDepth == 3
\* the attribute insertions made on one element
MaxWrites == 3

\* ------------------------------------------------------------ Option, str
None == <<>>
Some(x) == <<x>>
IsSome(o) == o # <<>>
Unwrap(o) == o[1]

Str(c) == <<c>>
EmptyString == <<>>

\* ------------------------------------------------------------- data model
\* XmlVersion
Version10 == "Version10"
Version11 == "Version11"

\* xml::common::XmlVersion, the version type of the reader's and the writer's
\* events
BaseVersion10 == "xml::Version10"
BaseVersion11 == "xml::Version11"

\* impl From<BaseXmlVersion> for XmlVersion
XmlVersionFromAlways10(value) == Version10
XmlVersionFrom(value) ==
  IF value = BaseVersion10 THEN Version10 ELSE Version11

\* impl From<XmlVersion> for BaseXmlVersion
BaseXmlVersionFrom(value) ==
  IF value = Version10 THEN BaseVersion10 ELSE BaseVersion11

\* the encoding of Document::default, "UTF-8"
Utf8 == <<"U", "T", "F", "-", "8">>

\* Element::default
ElementDefault ==
  [prefix |-> None, name |-> <<"t", "a", "g">>, attributes |-> <<>>,
   children |-> <<>>, text |-> None, cdata |-> None]

\* Document::default
DocumentDefault == [version |-> Version10, encoding |-> Utf8, root |-> None]

\* IndexMap::insert: a key already present keeps its position and takes the
\* new value; a new key is appended.  A map is a sequence of [k, v].
IndexMapInsertMoveToEnd(m, key, value) ==
  SelectSeq(m, LAMBDA kv : kv.k # key) \o <<[k |-> key, v |-> value]>>
IndexMapInsert(m, key, value) ==
  IF \E i \in 1..Len(m) : m[i].k = key
    THEN [i \in 1..Len(m) |-> IF m[i].k = key THEN [k |-> key, v |-> value] ELSE m[i]]
    ELSE Append(m, [k |-> key, v |-> value])

\* IndexMap's PartialEq: same length and every key maps to the same value,
\* whatever the order
IndexMapEqOrdered(m1, m2) == m1 = m2
IndexMapEq(m1, m2) ==
  /\ Len(m1) = Len(m2)
  /\ \A i \in 1..Len(m1) : \E j \in 1..Len(m2) : m2[j] = m1[i]

\* derive(PartialEq) of Element
RECURSIVE ElementEq(_, _)
ElementEq(e1, e2) ==
  /\ e1.prefix = e2.prefix
  /\ e1.name = e2.name
  /\ IndexMapEq(e1.attributes, e2.attributes)
  /\ Len(e1.children) = Len(e2.children)
  /\ \A i \in 1..Len(e1.children) : ElementEq(e1.children[i], e2.children[i])
  /\ e1.text = e2.text
  /\ e1.cdata = e2.cdata

\* before find has been called
NoAnswer == [op |-> "none"]
NoResult == [kind |-> "none", el |-> ElementDefault, ref |-> <<>>, t |-> EmptyString]

\* ----------------------------------------------------------------- events
\* One record shape for every event of the reader and of the writer; the
\* fields an event kind does not carry hold the defaults below.
Ev(kind) ==
  [kind |-> kind, prefix |-> None, name |-> EmptyString, attributes |-> <<>>,
   s |-> EmptyString, version |-> BaseVersion10, encoding |-> Utf8]

EvStartDocument(version, encoding) ==
  [Ev("StartDocument") EXCEPT !.version = version, !.encoding = encoding]
EvStartElement(prefix, name, attributes) ==
  [Ev("StartElement") EXCEPT !.prefix = prefix, !.name = name, !.attributes = attributes]
EvEndElement(prefix, name) ==
  [Ev("EndElement") EXCEPT !.prefix = prefix, !.name = name]
EvCharacters(s) == [Ev("Characters") EXCEPT !.s = s]
EvCData(s) == [Ev("CData") EXCEPT !.s = s]
EvEndDocument == Ev("EndDocument")
\* reader.next() returning Err
EvError == Ev("Error")

\* an attribute of a start-tag event
Attr(prefix, local_name, value) ==
  [prefix |-> prefix, local_name |-> local_name, value |-> value]

\* the kinds Element::parse ignores
IgnoredKinds ==
  {"StartDocument", "EndDocument", "ProcessingInstruction", "Whitespace", "Comment"}

\* ------------------------------------------------------------------ state
VARIABLES
  source,    \* which event source the reader is attached to
  consumed,  \* the events reader.next() has returned so far, in order, up to
             \* the first EndDocument or error
  rereads,   \* the number, modulo 2, of the calls of reader.next() made after
             \* that one: each returns the same event again
  stack,     \* the Elements whose Element::parse call is on the call stack,
             \* outermost (the root) first
  doc,       \* the local `doc` of Document::parse
  result,    \* "running", or how Document::parse ended: "Ok", "Err", "Panic"
  returned,  \* Some(Document) once Document::parse has returned Ok(doc)
  entry,     \* the function the caller used to write: "write_with", "write",
             \* "Document::fmt" or "Element::fmt"
  wdoc,      \* the Document that Document::write_with is called on
  document_decl, \* the document_decl argument of write_with
  wstack,    \* the Element::write calls on the call stack, outermost first:
             \* [e: the element, pc: where the call stands, i: children written]
  out,       \* the events the sink has accepted so far, in order
  wresult,   \* "idle", "decl", "running", or how write_with ended: "Ok", "Err"
  sinkErr,   \* the sink has returned an error from writer.write
  tree,      \* the Element that find is called on
  path,      \* Some(path string) once find has been called
  found,     \* the value find returned
  answer     \* the call of find_value, find_child or filter_children that
             \* was made, with its arguments and the value it returned

pvars == <<source, consumed, rereads, stack, doc, result, returned>>
wvars == <<entry, wdoc, document_decl, wstack, out, wresult, sinkErr>>
fvars == <<tree, path, found, answer>>
vars == <<source, consumed, rereads, stack, doc, result, returned,
          entry, wdoc, document_decl, wstack, out, wresult, sinkErr, tree, path,
          found,
          answer>>

\* ----------------------------------------------------------- tree builder
\* let attr_name = match attr.name.prefix { Some(prefix) =>
\* format!("{}:{}", prefix, attr.name.local_name), None => attr.name.local_name }
AttrNameLocal(attr) == attr.local_name
AttrName(attr) ==
  IF IsSome(attr.prefix)
    THEN Unwrap(attr.prefix) \o <<":">> \o attr.local_name
    ELSE attr.local_name

\* the attr_map loop of Element::parse and of Document::parse
RECURSIVE AttrMapFrom(_, _)
AttrMapFrom(attr_map, attributes) ==
  IF attributes = <<>> THEN attr_map
  ELSE LET attr == Head(attributes)
           attr_name == AttrName(attr)
       IN AttrMapFrom(IndexMapInsert(attr_map, attr_name, attr.value), Tail(attributes))

\* Element { prefix: name.prefix, name: name.local_name, attributes: attr_map,
\*           ..Element::default() }
ElementFromStart(ev) ==
  [ElementDefault EXCEPT !.prefix = ev.prefix, !.name = ev.name,
                         !.attributes = AttrMapFrom(<<>>, ev.attributes)]

\* the test of the EndElement arm of Element::parse
CloseMatchesNameOnly(ev, self) == ev.name = self.name
CloseMatches(ev, self) == ev.prefix = self.prefix /\ ev.name = self.name

\* self.text = Some(text + &s), text being "" when self.text is None
AccumulateReplace(field, s) == Some(s)
Accumulate(field, s) == Some((IF IsSome(field) THEN Unwrap(field) ELSE EmptyString) \o s)

\* the element an open call stack amounts to, each open element holding
\* the next one as its last child
RECURSIVE OpenTreeOf(_)
OpenTreeOf(st) ==
  IF Len(st) = 1 THEN st[1]
  ELSE [st[1] EXCEPT !.children = Append(st[1].children, OpenTreeOf(Tail(st)))]

\* self.children.push(child)
PushChildFront(children, child) == <<child>> \o children
PushChild(children, child) == Append(children, child)

Top == stack[Len(stack)]

\* an assignment to a field of self: self is the innermost open element
SetTopLeaking(e) ==
  [i \in 1..Len(stack) |->
     IF i = Len(stack) THEN e
     ELSE [stack[i] EXCEPT !.text = e.text, !.cdata = e.cdata]]
SetTop(e) == [stack EXCEPT ![Len(stack)] = e]

\* the call stack once the innermost Element::parse has returned
PopKeeping == stack
Pop == SubSeq(stack, 1, Len(stack) - 1)

\* ------------------------------------------------------- the event source
a == Str("a")
UpperA == Str("A")
p == Str("p")
k == Str("k")

\* the attribute list of a start-tag: a plain attribute, a prefixed one with
\* the same local name, and the plain one again with another value
AttrList ==
  <<Attr(None, k, Str("1")), Attr(Some(p), k, Str("2")), Attr(None, k, Str("3"))>>

Latin1 == <<"l", "1">>

\* What a reader over arbitrary input can deliver, one small alphabet per
\* source: tag names, tag prefixes and reader errors, character data, CDATA,
\* the declaration and attributes, and the events the builder ignores.
NameEvents ==
  {EvStartElement(None, a, <<>>), EvStartElement(None, UpperA, <<>>),
   EvEndElement(None, a), EvEndElement(None, UpperA), EvEndDocument}
PrefixEvents ==
  {EvStartElement(None, a, <<>>), EvStartElement(Some(p), a, <<>>),
   EvEndElement(None, a), EvEndElement(Some(p), a), EvError}
TextEvents ==
  {EvStartElement(None, a, <<>>), EvEndElement(None, a),
   EvCharacters(Str("x")), EvCharacters(Str("z")), EvCData(Str("y"))}
CDataEvents ==
  {EvStartElement(None, a, <<>>), EvEndElement(None, a),
   EvCData(Str("y")), EvCData(Str("w")), EvCharacters(Str("x"))}
DeclEvents ==
  {EvStartDocument(BaseVersion11, Latin1), EvStartElement(None, a, AttrList),
   EvEndElement(None, a), EvEndDocument, EvError}
IgnoredEvents ==
  {EvStartElement(None, a, <<>>), EvEndElement(None, a),
   Ev("ProcessingInstruction"), Ev("Whitespace"), Ev("Comment")}

Sources == {"names", "prefixes", "text", "cdata", "decl", "ignored"}

\* A reader over a whole input, which is finite: it delivers events of every
\* kind the builder handles, and after MaxEvents events at the latest the
\* input is exhausted and the reader ends, with EndDocument or with an error.
WholeEvents ==
  {EvStartDocument(BaseVersion11, Latin1), EvStartElement(None, a, <<>>),
   EvEndElement(None, a), EvCharacters(Str("x")), EvCData(Str("y")),
   EvEndDocument, EvError}

\* the reader has returned EndDocument or an error
Ended == consumed # <<>> /\ consumed[Len(consumed)].kind \in {"EndDocument", "Error"}

\* the events the writer's output reads back as: what was written, in order
ReadBack == out

\* reader.next(): the events the next call can return.  Once the reader has
\* returned EndDocument or an error it returns the same again on every call.
Deliverable ==
  IF Ended
    THEN {consumed[Len(consumed)]}
  ELSE IF source = "whole"
    THEN IF Len(consumed) < MaxEvents THEN WholeEvents
         ELSE {EvEndDocument, EvError}
  ELSE IF source = "written"
    THEN IF wresult # "Ok" THEN {}
         ELSE IF Len(consumed) < Len(ReadBack) THEN {ReadBack[Len(consumed) + 1]}
         ELSE {EvEndDocument}
  ELSE IF source = "names" THEN NameEvents
  ELSE IF source = "prefixes" THEN PrefixEvents
  ELSE IF source = "text" THEN TextEvents
  ELSE IF source = "cdata" THEN CDataEvents
  ELSE IF source = "decl" THEN DeclEvents
  ELSE IgnoredEvents

\* reader.next() returns ev
Read(ev) ==
  /\ result = "running"
  /\ ev \in Deliverable
  /\ IF Ended
       THEN /\ consumed' = consumed
            /\ rereads' = (rereads + 1) % 2
       ELSE /\ Len(consumed) < MaxEvents \/ source \in {"written", "whole"}
            /\ consumed' = Append(consumed, ev)
            /\ rereads' = rereads
  /\ source' = source

\* ------------------------------------------------------- Document::parse
\* `reader.next()?` fails in Document::parse or in any Element::parse below
\* it: every `?` on the call stack returns the error, the locals are dropped
ReaderErrorBreak(ev) ==
  /\ Read(ev)
  /\ ev.kind = "Error"
  /\ result' = "Ok"
  /\ stack' = <<>>
  /\ doc' = IF stack = <<>> THEN doc ELSE [doc EXCEPT !.root = Some(OpenTreeOf(stack))]
  /\ returned' = Some(doc')
ReaderError(ev) ==
  /\ Read(ev)
  /\ ev.kind = "Error"
  /\ result' = "Err"
  /\ stack' = <<>>
  /\ doc' = DocumentDefault
  /\ returned' = None

\* XmlEvent::StartDocument in Document::parse
DocStartDocument(ev) ==
  /\ Read(ev)
  /\ stack = <<>>
  /\ ev.kind = "StartDocument"
  /\ doc' = [doc EXCEPT !.version = XmlVersionFrom(ev.version),
                        !.encoding = ev.encoding]
  /\ UNCHANGED <<stack, result, returned>>

\* XmlEvent::StartElement in Document::parse, up to the call of root.parse
DocStartElement(ev) ==
  /\ Read(ev)
  /\ stack = <<>>
  /\ ev.kind = "StartElement"
  /\ stack' = <<ElementFromStart(ev)>>
  /\ UNCHANGED <<doc, result, returned>>

\* XmlEvent::EndDocument => break; Ok(doc)
DocEndDocument(ev) ==
  /\ Read(ev)
  /\ stack = <<>>
  /\ ev.kind = "EndDocument"
  /\ result' = "Ok"
  /\ returned' = Some(doc)
  /\ UNCHANGED <<stack, doc>>

\* _ => {} in Document::parse
DocOther(ev) ==
  /\ Read(ev)
  /\ stack = <<>>
  /\ ev.kind \notin {"StartDocument", "StartElement", "EndDocument", "Error"}
  /\ UNCHANGED <<stack, doc, result, returned>>

\* -------------------------------------------------------- Element::parse
\* XmlEvent::StartElement: the child is created and child.parse is called
ElemStartElement(ev) ==
  /\ Read(ev)
  /\ stack # <<>>
  /\ ev.kind = "StartElement"
  /\ stack' = Append(stack, ElementFromStart(ev))
  /\ UNCHANGED <<doc, result, returned>>

\* XmlEvent::EndElement: on a match self.parse returns Ok(()) and the caller
\* goes on, self.children.push(child) in Element::parse or
\* doc.root = Some(root) in Document::parse; otherwise panic!
ElemEndElement(ev) ==
  /\ Read(ev)
  /\ stack # <<>>
  /\ ev.kind = "EndElement"
  /\ IF CloseMatches(ev, Top)
       THEN /\ IF Len(stack) = 1
                 THEN /\ doc' = [doc EXCEPT !.root = Some(Top)]
                      /\ stack' = <<>>
                 ELSE /\ stack' = [Pop EXCEPT ![Len(stack) - 1].children =
                                      PushChild(stack[Len(stack) - 1].children, Top)]
                      /\ doc' = doc
            /\ UNCHANGED <<result, returned>>
       ELSE /\ result' = "Panic"
            /\ stack' = <<>>
            /\ doc' = DocumentDefault
            /\ returned' = None

\* XmlEvent::Characters(s)
ElemCharacters(ev) ==
  /\ Read(ev)
  /\ stack # <<>>
  /\ ev.kind = "Characters"
  /\ stack' = SetTop([Top EXCEPT !.text = Accumulate(Top.text, ev.s)])
  /\ UNCHANGED <<doc, result, returned>>

\* XmlEvent::CData(s)
ElemCData(ev) ==
  /\ Read(ev)
  /\ stack # <<>>
  /\ ev.kind = "CData"
  /\ stack' = SetTop([Top EXCEPT !.cdata = Accumulate(Top.cdata, ev.s)])
  /\ UNCHANGED <<doc, result, returned>>

\* StartDocument | EndDocument | ProcessingInstruction | Whitespace | Comment
ElemIgnoredWhitespaceKept(ev) ==
  /\ Read(ev)
  /\ stack # <<>>
  /\ ev.kind \in IgnoredKinds
  /\ stack' = IF ev.kind = "Whitespace"
                THEN SetTop([Top EXCEPT !.text = Accumulate(Top.text, Str(" "))])
                ELSE stack
  /\ UNCHANGED <<doc, result, returned>>
ElemIgnored(ev) ==
  /\ Read(ev)
  /\ stack # <<>>
  /\ ev.kind \in IgnoredKinds
  /\ UNCHANGED <<stack, doc, result, returned>>

AllEvents ==
  NameEvents \cup PrefixEvents \cup TextEvents \cup CDataEvents \cup DeclEvents
    \cup IgnoredEvents \cup WholeEvents

Init ==
  /\ source \in Sources
  /\ consumed = <<>>
  /\ rereads = 0
  /\ stack = <<>>
  /\ doc = DocumentDefault
  /\ result = "running"
  /\ returned = None
  /\ entry = "write_with"
  /\ wdoc = DocumentDefault
  /\ document_decl = FALSE
  /\ wstack = <<>>
  /\ out = <<>>
  /\ wresult = "idle"
  /\ sinkErr = FALSE
  /\ tree = ElementDefault
  /\ path = None
  /\ found = NoResult
  /\ answer = NoAnswer

Next ==
  \/ \E ev \in AllEvents : ReaderError(ev) /\ UNCHANGED <<wvars, fvars>>
  \/ \E ev \in AllEvents : DocStartDocument(ev) /\ UNCHANGED <<wvars, fvars>>
  \/ \E ev \in AllEvents : DocStartElement(ev) /\ UNCHANGED <<wvars, fvars>>
  \/ \E ev \in AllEvents : DocEndDocument(ev) /\ UNCHANGED <<wvars, fvars>>
  \/ \E ev \in AllEvents : DocOther(ev) /\ UNCHANGED <<wvars, fvars>>
  \/ \E ev \in AllEvents : ElemStartElement(ev) /\ UNCHANGED <<wvars, fvars>>
  \/ \E ev \in AllEvents : ElemEndElement(ev) /\ UNCHANGED <<wvars, fvars>>
  \/ \E ev \in AllEvents : ElemCharacters(ev) /\ UNCHANGED <<wvars, fvars>>
  \/ \E ev \in AllEvents : ElemCData(ev) /\ UNCHANGED <<wvars, fvars>>
  \/ \E ev \in AllEvents : ElemIgnored(ev) /\ UNCHANGED <<wvars, fvars>>

Spec == Init /\ [][Next]_vars

\* Document::parse of a whole input.  The call is synchronous and nothing
\* suspends it: as long as it has not returned, it makes its next call of
\* reader.next(), which returns, and handles what it returned.
InitWhole ==
  /\ source = "whole"
  /\ consumed = <<>>
  /\ rereads = 0
  /\ stack = <<>>
  /\ doc = DocumentDefault
  /\ result = "running"
  /\ returned = None
  /\ entry = "write_with"
  /\ wdoc = DocumentDefault
  /\ document_decl = FALSE
  /\ wstack = <<>>
  /\ out = <<>>
  /\ wresult = "idle"
  /\ sinkErr = FALSE
  /\ tree = ElementDefault
  /\ path = None
  /\ found = NoResult
  /\ answer = NoAnswer

SpecWhole == InitWhole /\ [][Next]_vars /\ WF_vars(Next)
\* ========================================================= tree serializer
\* Name::local(name): a name without prefix
NameLocal(name) == [prefix |-> None, local_name |-> name]

\* the `attributes` vector of Element::write: every key as a local name
RECURSIVE WAttributes(_)
WAttributes(attributes) ==
  IF attributes = <<>> THEN <<>>
  ELSE <<Attr(NameLocal(Head(attributes).k).prefix, NameLocal(Head(attributes).k).local_name,
               Head(attributes).v)>> \o WAttributes(Tail(attributes))

\* XmlEvent::StartElement { name, attributes, namespace }
WStartElementNoAttrs(e) ==
  EvStartElement(NameLocal(e.name).prefix, NameLocal(e.name).local_name, <<>>)
WStartElement(e) ==
  EvStartElement(NameLocal(e.name).prefix, NameLocal(e.name).local_name,
                 WAttributes(e.attributes))

\* XmlEvent::EndElement { name: Some(name) }
WEndElementOutermost(e) ==
  EvEndElement(NameLocal(wstack[1].e.name).prefix, NameLocal(wstack[1].e.name).local_name)
WEndElement(e) == EvEndElement(NameLocal(e.name).prefix, NameLocal(e.name).local_name)

\* the call e.write(writer) at its first statement
Frame(e) == [e |-> e, pc |-> "start", i |-> 0]

WTop == wstack[Len(wstack)]

\* the statements of Element::write in the order they stand: the start-tag,
\* the text, the cdata, the loop over the children (with the end-tag after it)
ThenCDataFirst(pc) ==
  IF pc = "start" THEN "cdata" ELSE IF pc = "cdata" THEN "text" ELSE "children"
Then(pc) ==
  IF pc = "start" THEN "text" ELSE IF pc = "text" THEN "cdata" ELSE "children"

\* writer.write(ev)?: the sink accepts the event (ok) and the call goes on
\* as `after` says, or the sink fails and every write on the stack returns
\* Err; the Vec<u8> that the Display impls write into does not fail
SinkSwallow(ev, ok, after, afterResult) ==
  /\ entry \in {"Document::fmt", "Element::fmt"} => ok
  /\ out' = IF ok THEN Append(out, ev) ELSE out
  /\ sinkErr' = ~ok
  /\ wstack' = after
  /\ wresult' = afterResult
Sink(ev, ok, after, afterResult) ==
  /\ entry \in {"Document::fmt", "Element::fmt"} => ok
  /\ out' = IF ok THEN Append(out, ev) ELSE out
  /\ sinkErr' = ~ok
  /\ wstack' = IF ok THEN after ELSE <<>>
  /\ wresult' = IF ok THEN afterResult ELSE "Err"

\* Document::write_with up to the call of e.write: the declaration is
\* written when document_decl is set
WriteDecl(ok) ==
  /\ wresult = "decl"
  /\ LET after == IF IsSome(wdoc.root) THEN <<Frame(Unwrap(wdoc.root))>> ELSE <<>>
         afterResult == IF IsSome(wdoc.root) THEN "running" ELSE "Ok"
     IN IF document_decl
          THEN Sink(EvStartDocument(BaseXmlVersionFrom(wdoc.version), wdoc.encoding),
                    ok, after, afterResult)
          ELSE /\ ok
               /\ wstack' = after
               /\ wresult' = afterResult
               /\ UNCHANGED <<out, sinkErr>>
  /\ UNCHANGED <<entry, wdoc, document_decl>>

\* Element::write: the start-tag
WriteStart(ok) ==
  /\ wresult = "running"
  /\ WTop.pc = "start"
  /\ Sink(WStartElement(WTop.e), ok, [wstack EXCEPT ![Len(wstack)].pc = Then("start")], "running")
  /\ UNCHANGED <<entry, wdoc, document_decl>>

\* if let Some(ref text) = self.text
WriteText(ok) ==
  /\ wresult = "running"
  /\ WTop.pc = "text"
  /\ LET after == [wstack EXCEPT ![Len(wstack)].pc = Then("text")]
     IN IF IsSome(WTop.e.text)
          THEN Sink(EvCharacters(Unwrap(WTop.e.text)), ok, after, "running")
          ELSE /\ ok
               /\ wstack' = after
               /\ UNCHANGED <<out, sinkErr, wresult>>
  /\ UNCHANGED <<entry, wdoc, document_decl>>

\* if let Some(ref cdata) = self.cdata
WriteCData(ok) ==
  /\ wresult = "running"
  /\ WTop.pc = "cdata"
  /\ LET after == [wstack EXCEPT ![Len(wstack)].pc = Then("cdata")]
     IN IF IsSome(WTop.e.cdata)
          THEN Sink(EvCData(Unwrap(WTop.e.cdata)), ok, after, "running")
          ELSE /\ ok
               /\ wstack' = after
               /\ UNCHANGED <<out, sinkErr, wresult>>
  /\ UNCHANGED <<entry, wdoc, document_decl>>

\* for e in &self.children { e.write(writer)? }: the call for the next child
WriteChild ==
  /\ wresult = "running"
  /\ WTop.pc = "children"
  /\ WTop.i < Len(WTop.e.children)
  /\ wstack' = Append([wstack EXCEPT ![Len(wstack)].i = WTop.i + 1],
                      Frame(WTop.e.children[WTop.i + 1]))
  /\ UNCHANGED <<entry, wdoc, document_decl, out, sinkErr, wresult>>

\* the end-tag and Ok(()); the outermost return ends write_with
WriteEnd(ok) ==
  /\ wresult = "running"
  /\ WTop.pc = "children"
  /\ WTop.i = Len(WTop.e.children)
  /\ Sink(WEndElement(WTop.e), ok, SubSeq(wstack, 1, Len(wstack) - 1),
          IF Len(wstack) = 1 THEN "Ok" ELSE "running")
  /\ UNCHANGED <<entry, wdoc, document_decl>>

\* ------------------------------------------------ the trees that are written
Label(prefix, name, attributes, text, cdata) ==
  [prefix |-> prefix, name |-> name, attributes |-> attributes, text |-> text, cdata |-> cdata]

Node(label, children) ==
  [prefix |-> label.prefix, name |-> label.name, attributes |-> label.attributes,
   children |-> children, text |-> label.text, cdata |-> label.cdata]

\* an attribute map as the builder makes it from AttrList
AttrMap == <<[k |-> k, v |-> Str("3")], [k |-> <<"p", ":", "k">>, v |-> Str("2")]>>

RootLabels ==
  {Label(None, a, <<>>, None, None),
   Label(Some(p), a, <<>>, None, None),
   Label(None, UpperA, AttrMap, Some(Str("x")), None),
   Label(None, a, <<>>, Some(EmptyString), Some(Str("y")))}
KidLabels ==
  {Label(None, a, <<>>, Some(Str("z")), None),
   Label(None, UpperA, AttrMap, Some(Str("x")), Some(Str("y")))}

\* the elements of at most d levels over the labels L in which every element
\* has at most one child
RECURSIVE Chains(_, _)
Chains(L, d) ==
  LET leaves == {Node(l, <<>>) : l \in L}
  IN IF d <= 1 THEN leaves
     ELSE leaves \cup {Node(l, <<t>>) : l \in L, t \in Chains(L, d - 1)}

\* the trees of at most MaxDepth levels with a root labelled from R: the root
\* has at most MaxKids children labelled from L, one of which may be a chain
TreesOver(R, L) ==
  LET leaves == {Node(l, <<>>) : l \in L}
      kidSeqs == UNION {[1..n -> leaves] : n \in 1..MaxKids}
      withChain == UNION {{[ks EXCEPT ![i] = t] : i \in 1..Len(ks), t \in Chains(L, MaxDepth - 1)} :
                            ks \in kidSeqs}
  IN {Node(l, ks) : l \in R, ks \in {<<>>} \cup withChain}

WriteTrees == TreesOver(RootLabels, KidLabels)

WriteDocs ==
  {[version |-> Version10, encoding |-> Utf8, root |-> r] : r \in {None} \cup {Some(t) : t \in WriteTrees}}
  \cup {[version |-> Version11, encoding |-> Latin1, root |-> Some(t)] :
          t \in {Node(l, <<>>) : l \in RootLabels}}

\* the ways a caller writes: Document::write_with, Document::write, and
\* to_string() through the Display impl of Document or of Element
Entries == {"write_with", "write", "Document::fmt", "Element::fmt"}

\* the document_decl argument write_with is called with: the caller's own
\* flag, true from Document::write (and so from Document's Display), false
\* from Element's Display
DocumentDeclAlways(e, flag) == TRUE
DocumentDecl(e, flag) ==
  IF e = "write_with" THEN flag
  ELSE IF e \in {"write", "Document::fmt"} THEN TRUE
  ELSE FALSE

\* the Document that Element's Display writes:
\* Document { root: Some(self.clone()), ..Document::default() }
ElementFmtDocument(e) == [DocumentDefault EXCEPT !.root = Some(e)]

\* a Document is written with write_with, then what was written is parsed
InitWrite ==
  /\ source = "written"
  /\ consumed = <<>>
  /\ rereads = 0
  /\ stack = <<>>
  /\ doc = DocumentDefault
  /\ result = "running"
  /\ returned = None
  /\ entry \in Entries
  /\ wdoc \in WriteDocs
  /\ entry = "Element::fmt" =>
       IsSome(wdoc.root) /\ wdoc = ElementFmtDocument(Unwrap(wdoc.root))
  /\ \E flag \in BOOLEAN : document_decl = DocumentDecl(entry, flag)
  /\ wstack = <<>>
  /\ out = <<>>
  /\ wresult = "decl"
  /\ sinkErr = FALSE
  /\ tree = ElementDefault
  /\ path = None
  /\ found = NoResult
  /\ answer = NoAnswer

NextWrite ==
  \/ \E ok \in BOOLEAN : WriteDecl(ok) /\ UNCHANGED <<pvars, fvars>>
  \/ \E ok \in BOOLEAN : WriteStart(ok) /\ UNCHANGED <<pvars, fvars>>
  \/ \E ok \in BOOLEAN : WriteText(ok) /\ UNCHANGED <<pvars, fvars>>
  \/ \E ok \in BOOLEAN : WriteCData(ok) /\ UNCHANGED <<pvars, fvars>>
  \/ WriteChild /\ UNCHANGED <<pvars, fvars>>
  \/ \E ok \in BOOLEAN : WriteEnd(ok) /\ UNCHANGED <<pvars, fvars>>
  \/ \E ev \in Deliverable : DocStartDocument(ev) /\ UNCHANGED <<wvars, fvars>>
  \/ \E ev \in Deliverable : DocStartElement(ev) /\ UNCHANGED <<wvars, fvars>>
  \/ \E ev \in Deliverable : DocEndDocument(ev) /\ UNCHANGED <<wvars, fvars>>
  \/ \E ev \in Deliverable : ElemStartElement(ev) /\ UNCHANGED <<wvars, fvars>>
  \/ \E ev \in Deliverable : ElemEndElement(ev) /\ UNCHANGED <<wvars, fvars>>
  \/ \E ev \in Deliverable : ElemCharacters(ev) /\ UNCHANGED <<wvars, fvars>>
  \/ \E ev \in Deliverable : ElemCData(ev) /\ UNCHANGED <<wvars, fvars>>

SpecWrite == InitWrite /\ [][NextWrite]_vars


\* ============================================================== path query
\* what find returns: Ok(&Element), the reference being the element and its
\* position (the child indexes leading to it from the element find was
\* called on), or Err(ElementNotFound { t })
Ok(el, ref) == [kind |-> "Ok", el |-> el, ref |-> ref, t |-> EmptyString]

\* TreexmlError::ElementNotFound { t: original.into() }
ElementNotFoundSegment(pth, original) ==
  [kind |-> "ElementNotFound", el |-> ElementDefault, ref |-> <<>>, t |-> pth[1]]
ElementNotFound(pth, original) ==
  [kind |-> "ElementNotFound", el |-> ElementDefault, ref |-> <<>>, t |-> original]

\* path.split('/').collect(): the pieces between the slashes; a string
\* without a slash, the empty one included, is one piece
RECURSIVE Split(_)
Split(s) ==
  IF s = <<>> THEN <<EmptyString>>
  ELSE LET rest == Split(Tail(s))
       IN IF Head(s) = "/" THEN <<EmptyString>> \o rest
          ELSE <<(<<Head(s)>> \o Head(rest))>> \o Tail(rest)

\* Iterator::find over the children, given what the predicate says of each:
\* the index of the first child that satisfies it, 0 when there is none
IterFindLast(hits) ==
  LET scan[i \in 0..Len(hits)] ==
        IF i = 0 THEN 0
        ELSE IF hits[i] THEN i
        ELSE scan[i - 1]
  IN scan[Len(hits)]
IterFind(hits) ==
  LET scan[i \in 1..(Len(hits) + 1)] ==
        IF i > Len(hits) THEN 0
        ELSE IF hits[i] THEN i
        ELSE scan[i + 1]
  IN scan[1]

\* a predicate on elements, as a value: the closure |t| t.name == s
NameIs(s) == [kind |-> "NameIs", s |-> s]

\* the closure |t| t.text.is_some()
HasText == [kind |-> "HasText", s |-> EmptyString]

\* the predicate called on an element
Holds(predicate, t) ==
  IF predicate.kind = "NameIs" THEN t.name = predicate.s ELSE IsSome(t.text)

\* self.children.iter().find(predicate)
find_child(e, predicate) ==
  IterFind([i \in 1..Len(e.children) |-> Holds(predicate, e.children[i])])

\* Element::find_path; ref is where `tree` is
RECURSIVE find_path(_, _, _, _)
find_path(pth, original, el, ref) ==
  IF pth = <<>> THEN Ok(el, ref)
  ELSE LET i == find_child(el, NameIs(pth[1]))
       IN IF i # 0
            THEN find_path(Tail(pth), original, el.children[i], Append(ref, i))
            ELSE ElementNotFound(pth, original)

\* Element::find
findSkippingEmpty(el, pth) ==
  find_path(SelectSeq(Split(pth), LAMBDA piece : piece # EmptyString), pth, el, <<>>)
find(el, pth) == find_path(Split(pth), pth, el, <<>>)

\* self.find(path) is called
Find(pth) ==
  /\ path = None
  /\ path' = Some(pth)
  /\ answer = NoAnswer
  /\ found' = find(tree, pth)
  /\ UNCHANGED <<tree, answer>>

\* ------------------------------------------------------------- find_value
\* the types T that find_value is instantiated with
Types == {"i32", "String"}

Digits == <<"0", "1", "2", "3", "4", "5", "6", "7", "8", "9">>
IsDigit(c) == \E d \in 1..10 : Digits[d] = c
DigitValue(c) == (CHOOSE d \in 1..10 : Digits[d] = c) - 1
I32Max == 2147483647
I32Min == -I32Max - 1

\* <i32 as FromStr>::from_str: an optional sign, then one or more decimal
\* digits, folded from the left, within the range of i32
FromStrI32(s) ==
  LET signed == s # <<>> /\ Head(s) \in {"+", "-"}
      digits == IF signed THEN Tail(s) ELSE s
      fold[i \in 0..Len(digits)] ==
        IF i = 0 THEN 0 ELSE fold[i - 1] * 10 + DigitValue(digits[i])
      value == IF signed /\ Head(s) = "-" THEN -fold[Len(digits)] ELSE fold[Len(digits)]
  IN IF digits = <<>> \/ \E i \in 1..Len(digits) : ~IsDigit(digits[i])
       THEN [ok |-> FALSE, v |-> 0]
     ELSE IF value < I32Min \/ value > I32Max THEN [ok |-> FALSE, v |-> 0]
     ELSE [ok |-> TRUE, v |-> value]

\* T::from_str(text); <String as FromStr>::from_str cannot fail
FromStr(T, text) ==
  IF T = "String" THEN [ok |-> TRUE, v |-> text] ELSE FromStrI32(text)

\* a value of type T that stands where a result carries none
NoValue(T) == IF T = "String" THEN EmptyString ELSE 0

\* what find_value returns
ValueFromStr(T, text) == [kind |-> "ValueFromStr", t |-> text, v |-> NoValue(T)]
OkSome(T, value) == [kind |-> "OkSome", t |-> EmptyString, v |-> value]
OkNone(T) == [kind |-> "OkNone", t |-> EmptyString, v |-> NoValue(T)]
Propagated(T, err) == [kind |-> err.kind, t |-> err.t, v |-> NoValue(T)]

\* el.text.as_ref()
TextOrCData(el) == IF IsSome(el.text) THEN el.text ELSE el.cdata
TextOf(el) == el.text

\* Element::find_value::<T>
find_value(el, pth, T) ==
  LET r == find(el, pth)
  IN IF r.kind # "Ok" THEN Propagated(T, r)
     ELSE IF IsSome(TextOf(r.el))
       THEN LET text == Unwrap(TextOf(r.el))
                c == FromStr(T, text)
            IN IF c.ok THEN OkSome(T, c.v) ELSE ValueFromStr(T, text)
     ELSE OkNone(T)

\* self.find_value::<T>(path) is called
FindValue(pth, T) ==
  /\ path = None
  /\ answer = NoAnswer
  /\ answer' = [op |-> "find_value", path |-> pth, T |-> T,
                 res |-> find_value(tree, pth, T)]
  /\ UNCHANGED <<tree, path, found>>

\* ------------------------------------------ find_child and filter_children
\* a reference to a direct child: the child and its index
ChildRef(e, i) == [ref |-> i, el |-> e.children[i]]

\* Iterator::filter over the children, collected: the indexes of the children
\* that satisfy the predicate, in the order the iterator yields them
IterFilterReversed(hits) ==
  LET scan[i \in 0..Len(hits)] ==
        IF i = 0 THEN <<>>
        ELSE IF hits[i] THEN <<i>> \o scan[i - 1]
        ELSE scan[i - 1]
  IN scan[Len(hits)]
IterFilter(hits) ==
  LET scan[i \in 1..(Len(hits) + 1)] ==
        IF i > Len(hits) THEN <<>>
        ELSE IF hits[i] THEN <<i>> \o scan[i + 1]
        ELSE scan[i + 1]
  IN scan[1]

\* self.children.iter().filter(predicate)
filter_children(e, predicate) ==
  IterFilter([i \in 1..Len(e.children) |-> Holds(predicate, e.children[i])])

\* the closures that are passed
Predicates == {NameIs(a), NameIs(Str("b")), HasText}

\* self.find_child(predicate) is called
FindChild(predicate) ==
  /\ path = None
  /\ answer = NoAnswer
  /\ LET i == find_child(tree, predicate)
     IN answer' = [op |-> "find_child", predicate |-> predicate,
                   res |-> IF i = 0 THEN None ELSE Some(ChildRef(tree, i))]
  /\ UNCHANGED <<tree, path, found>>

\* self.filter_children(predicate) is called and the iterator is drained
FilterChildren(predicate) ==
  /\ path = None
  /\ answer = NoAnswer
  /\ LET idx == filter_children(tree, predicate)
     IN answer' = [op |-> "filter_children", predicate |-> predicate,
                   res |-> [n \in 1..Len(idx) |-> ChildRef(tree, idx[n])]]
  /\ UNCHANGED <<tree, path, found>>

\* ---------------------------------- find_child_mut and filter_children_mut
\* self.children.iter_mut().find(predicate)
find_child_mut(e, predicate) ==
  IterFind([i \in 1..Len(e.children) |-> Holds(predicate, e.children[i])])

\* self.children.iter_mut().filter(predicate)
filter_children_mut(e, predicate) ==
  IterFilter([i \in 1..Len(e.children) |-> Holds(predicate, e.children[i])])

\* what a caller does with a &mut Element it was given: assigns its text, as
\* the tests do, or its name
Modifications == {[field |-> "text", s |-> Str("4")], [field |-> "name", s |-> Str("b")]}
Modified(el, modification) ==
  IF modification.field = "text" THEN [el EXCEPT !.text = Some(modification.s)]
  ELSE [el EXCEPT !.name = modification.s]

\* an assignment through the &mut reference to the child at index i of e
ThroughCopy(e, i, modification) == e
Through(e, i, modification) ==
  [e EXCEPT !.children[i] = Modified(e.children[i], modification)]

\* assignments through each of the references, one after the other
RECURSIVE ThroughAll(_, _, _)
ThroughAll(e, idx, modification) ==
  IF idx = <<>> THEN e
  ELSE ThroughAll(Through(e, Head(idx), modification), Tail(idx), modification)

\* self.find_child_mut(predicate) is called and the element it returned, if
\* any, is modified
FindChildMut(predicate, modification) ==
  /\ path = None
  /\ answer = NoAnswer
  /\ LET i == find_child_mut(tree, predicate)
     IN /\ answer' = [op |-> "find_child_mut", predicate |-> predicate,
                      modification |-> modification, before |-> tree,
                      res |-> IF i = 0 THEN <<>> ELSE <<i>>]
        /\ tree' = IF i = 0 THEN tree ELSE Through(tree, i, modification)
  /\ UNCHANGED <<path, found>>

\* self.filter_children_mut(predicate) is called and every element it yields
\* is modified
FilterChildrenMut(predicate, modification) ==
  /\ path = None
  /\ answer = NoAnswer
  /\ LET idx == filter_children_mut(tree, predicate)
     IN /\ answer' = [op |-> "filter_children_mut", predicate |-> predicate,
                      modification |-> modification, before |-> tree, res |-> idx]
        /\ tree' = ThroughAll(tree, idx, modification)
  /\ UNCHANGED <<path, found>>

\* ------------------------------------------------ the trees that are queried
b == Str("b")

FindLabels ==
  {Label(None, a, <<>>, Some(<<"1", "2">>), None),
   Label(None, b, <<>>, Some(Str("x")), Some(Str("7"))),
   Label(Some(p), a, <<>>, None, Some(Str("7")))}

\* trees in which an element has the empty string for name, as Element::new("")
\* makes them: a > a > "" > b and a > "" > a
Named(name, children) == Node(Label(None, name, <<>>, None, None), children)
EmptyNameTrees ==
  {Named(a, <<Named(a, <<Named(EmptyString, <<Named(b, <<>>)>>)>>)>>),
   Named(a, <<Named(EmptyString, <<Named(a, <<>>)>>)>>)}

FindTrees ==
  TreesOver({Label(None, a, <<>>, None, None)}, FindLabels) \cup EmptyNameTrees

PathChars == {"a", "b", "/"}
Paths ==
  UNION {[1..n -> PathChars] : n \in 0..MaxPathLen} \cup {<<"a", "/", "/", "b">>}

InitFind ==
  /\ source = "names"
  /\ consumed = <<>>
  /\ rereads = 0
  /\ stack = <<>>
  /\ doc = DocumentDefault
  /\ result = "idle"
  /\ returned = None
  /\ entry = "write_with"
  /\ wdoc = DocumentDefault
  /\ document_decl = FALSE
  /\ wstack = <<>>
  /\ out = <<>>
  /\ wresult = "idle"
  /\ sinkErr = FALSE
  /\ tree \in FindTrees
  /\ path = None
  /\ found = NoResult
  /\ answer = NoAnswer

NextFind ==
  \/ \E pth \in Paths : Find(pth) /\ UNCHANGED <<pvars, wvars>>
  \/ \E pth \in Paths, T \in Types : FindValue(pth, T) /\ UNCHANGED <<pvars, wvars>>
  \/ \E predicate \in Predicates : FindChild(predicate) /\ UNCHANGED <<pvars, wvars>>
  \/ \E predicate \in Predicates : FilterChildren(predicate) /\ UNCHANGED <<pvars, wvars>>
  \/ \E predicate \in Predicates, modification \in Modifications :
       FindChildMut(predicate, modification) /\ UNCHANGED <<pvars, wvars>>
  \/ \E predicate \in Predicates, modification \in Modifications :
       FilterChildrenMut(predicate, modification) /\ UNCHANGED <<pvars, wvars>>

SpecFind == InitFind /\ [][NextFind]_vars

\* ----------------------------------------------------------- equality
\* self == other is evaluated
Eq(other) ==
  /\ path = None
  /\ answer = NoAnswer
  /\ answer' = [op |-> "eq", other |-> other, res |-> ElementEq(tree, other)]
  /\ UNCHANGED <<tree, path, found>>

\* the elements that are compared: they differ in one field, or in the order
\* of their attributes, or in the order of their children
EqAttrs == <<[k |-> k, v |-> Str("1")], [k |-> <<"p", ":", "k">>, v |-> Str("2")]>>
EqAttrsReordered == <<EqAttrs[2], EqAttrs[1]>>
EqAttrsOtherValue == <<EqAttrs[1], [k |-> <<"p", ":", "k">>, v |-> Str("3")]>>

EqLabels ==
  {Label(None, a, EqAttrs, None, None),
   Label(None, a, EqAttrsReordered, None, None),
   Label(None, a, EqAttrsOtherValue, None, None),
   Label(None, a, <<EqAttrs[1]>>, None, None),
   Label(Some(p), a, EqAttrs, None, None),
   Label(None, UpperA, EqAttrs, None, None),
   Label(None, a, EqAttrs, Some(Str("x")), None),
   Label(None, a, EqAttrs, None, Some(Str("x")))}

EqTrees ==
  LET leaves == {Node(l, <<>>) : l \in EqLabels}
      top == Label(None, a, <<>>, None, None)
  IN leaves
     \cup {Node(top, ks) : ks \in UNION {[1..n -> leaves] : n \in 1..MaxKids}}
     \cup {Node(top, <<Node(top, <<t>>)>>) : t \in leaves}

InitEq ==
  /\ source = "names"
  /\ consumed = <<>>
  /\ rereads = 0
  /\ stack = <<>>
  /\ doc = DocumentDefault
  /\ result = "idle"
  /\ returned = None
  /\ entry = "write_with"
  /\ wdoc = DocumentDefault
  /\ document_decl = FALSE
  /\ wstack = <<>>
  /\ out = <<>>
  /\ wresult = "idle"
  /\ sinkErr = FALSE
  /\ tree \in EqTrees
  /\ path = None
  /\ found = NoResult
  /\ answer = NoAnswer

NextEq ==
  \/ \E other \in EqTrees : Eq(other) /\ UNCHANGED <<pvars, wvars>>

SpecEq == InitEq /\ [][NextEq]_vars

\* ------------------------------------------------------- attribute maps
\* Element::new(name)
ElementNew(name) == [ElementDefault EXCEPT !.name = name]

\* ElementBuilder::attr(key, value)
BuilderAttr(key, value) ==
  /\ answer.op = "attr"
  /\ Len(answer.writes) < MaxWrites
  /\ tree' = [tree EXCEPT !.attributes = IndexMapInsert(tree.attributes, key, value)]
  /\ answer' = [answer EXCEPT !.writes = Append(answer.writes, [k |-> key, v |-> value])]
  /\ UNCHANGED <<path, found>>

\* the element is the one the tree builder makes from a start-tag with these
\* attributes: its attr_map loop inserts each under its normalized name
StartTagAttrs(attributes) ==
  /\ answer.op = "attr"
  /\ answer.writes = <<>>
  /\ attributes # <<>>
  /\ tree' = ElementFromStart(EvStartElement(tree.prefix, tree.name, attributes))
  /\ answer' = [answer EXCEPT !.writes =
                   [i \in 1..Len(attributes) |->
                      [k |-> AttrName(attributes[i]), v |-> attributes[i].value]]]
  /\ UNCHANGED <<path, found>>

\* the keys and values that are written
AttrKeys == {Str("k"), <<"p", ":", "k">>, Str("j")}
AttrValues == {Str("1"), Str("2")}
AttrChoices ==
  {Attr(None, Str("k"), Str("1")), Attr(Some(Str("p")), Str("k"), Str("2")),
   Attr(None, Str("k"), Str("3"))}
AttrLists == UNION {[1..n -> AttrChoices] : n \in 1..MaxWrites}

InitAttr ==
  /\ source = "names"
  /\ consumed = <<>>
  /\ rereads = 0
  /\ stack = <<>>
  /\ doc = DocumentDefault
  /\ result = "idle"
  /\ returned = None
  /\ entry = "write_with"
  /\ wdoc = DocumentDefault
  /\ document_decl = FALSE
  /\ wstack = <<>>
  /\ out = <<>>
  /\ wresult = "idle"
  /\ sinkErr = FALSE
  /\ tree = ElementNew(Str("a"))
  /\ path = None
  /\ found = NoResult
  /\ answer = [op |-> "attr", writes |-> <<>>]

NextAttr ==
  \/ \E key \in AttrKeys, value \in AttrValues :
       BuilderAttr(key, value) /\ UNCHANGED <<pvars, wvars>>
  \/ \E attributes \in AttrLists :
       StartTagAttrs(attributes) /\ UNCHANGED <<pvars, wvars>>

SpecAttr == InitAttr /\ [][NextAttr]_vars

\* a parse of arbitrary input, or a write followed by a parse of the output
InitAll == Init \/ InitWrite
NextAll == Next \/ NextWrite
SpecAll == InitAll /\ [][NextAll]_vars


\* ============================================================ properties
\* What the stream says, computed from the events alone.
Last(s) == s[Len(s)]

\* the nesting depth before each event of s is read and after the last one
\* (indices 1..Len(s)+1); an end-tag outside any element opens or closes
\* nothing
RECURSIVE Depths(_)
Depths(s) ==
  IF s = <<>> THEN <<0>>
  ELSE LET D == Depths(SubSeq(s, 1, Len(s) - 1))
           d == D[Len(s)]
           e == s[Len(s)]
       IN Append(D, IF e.kind = "StartElement" THEN d + 1
                    ELSE IF e.kind = "EndElement" /\ d > 0 THEN d - 1
                    ELSE d)

DepthBefore(s, i) == Depths(s)[i]

Min(S) == CHOOSE x \in S : \A y \in S : x <= y
Max(S) == CHOOSE x \in S : \A y \in S : x >= y

\* the elements of a set of numbers in increasing order
RECURSIVE Sorted(_)
Sorted(S) == IF S = {} THEN <<>> ELSE <<Min(S)>> \o Sorted(S \ {Min(S)})

\* the index of the end-tag that closes the start-tag at index i, or
\* Len(s) + 1 while it is still open
CloseOf(s, i) ==
  LET D == Depths(s)
      J == {j \in (i + 1)..Len(s) : D[j + 1] = D[i]}
  IN IF J = {} THEN Len(s) + 1 ELSE Min(J)

\* the start-tags of s from index i to the end-tag that closes i
StartsWithin(s, i) ==
  LET c == CloseOf(s, i)
  IN Sorted({m \in i..Len(s) : m <= c /\ s[m].kind = "StartElement"})

\* the top-level start-tags of s, and those already closed
TopStarts(s) ==
  LET D == Depths(s)
  IN {i \in 1..Len(s) : s[i].kind = "StartElement" /\ D[i] = 0}
ClosedTopStarts(s) == {i \in TopStarts(s) : CloseOf(s, i) <= Len(s)}

\* the events of one kind received directly inside the element opened at i
DirectlyInside(s, i, kind) ==
  LET D == Depths(s)
      c == CloseOf(s, i)
  IN Sorted({m \in (i + 1)..Len(s) :
               /\ m < c
               /\ s[m].kind = kind
               /\ D[m] = D[i] + 1})

RECURSIVE ConcatS(_, _)
ConcatS(s, idx) == IF idx = <<>> THEN EmptyString ELSE s[Head(idx)].s \o ConcatS(s, Tail(idx))

\* the accumulated value of one kind for the element opened at i
Collected(s, i, kind) ==
  LET idx == DirectlyInside(s, i, kind)
  IN IF idx = <<>> THEN None ELSE Some(ConcatS(s, idx))

\* What the tree says: the elements of a tree in pre-order, each with its depth
RECURSIVE PreOrder(_, _)
RECURSIVE PreOrderAll(_, _)
PreOrder(e, d) == <<[d |-> d, e |-> e]>> \o PreOrderAll(e.children, d + 1)
PreOrderAll(es, d) ==
  IF es = <<>> THEN <<>> ELSE PreOrder(Head(es), d) \o PreOrderAll(Tail(es), d)

\* the element under construction: each open element holds the next open
\* one as the child it is currently reading
OpenTree(st) == OpenTreeOf(st)

\* tag identity and depth of every node, in document order
TagsOfTree(e) ==
  LET po == PreOrder(e, 0)
  IN [n \in 1..Len(po) |-> [d |-> po[n].d, prefix |-> po[n].e.prefix, name |-> po[n].e.name]]
TagsOfStream(s, i) ==
  LET idx == StartsWithin(s, i)
      D == Depths(s)
  IN [n \in 1..Len(idx) |->
        [d |-> D[idx[n]] - D[i],
         prefix |-> s[idx[n]].prefix, name |-> s[idx[n]].name]]

\* text and cdata of every node, in document order
ContentOfTree(e) ==
  LET po == PreOrder(e, 0)
  IN [n \in 1..Len(po) |-> [text |-> po[n].e.text, cdata |-> po[n].e.cdata]]
ContentOfStream(s, i) ==
  LET idx == StartsWithin(s, i)
  IN [n \in 1..Len(idx) |->
        [text |-> Collected(s, idx[n], "Characters"),
         cdata |-> Collected(s, idx[n], "CData")]]

\* C3: order preservation on build.  The root that Document::parse holds,
\* and the element still under construction, have exactly the elements that
\* the start-tags of their part of the stream opened, at the same depth and in
\* the same order: no child is dropped, duplicated or reordered.
C3_OrderPreserved ==
  /\ IsSome(doc.root) =>
       /\ ClosedTopStarts(consumed) # {}
       /\ TagsOfTree(Unwrap(doc.root)) =
            TagsOfStream(consumed, Max(ClosedTopStarts(consumed)))
  /\ stack # <<>> =>
       TagsOfTree(OpenTree(stack)) = TagsOfStream(consumed, Max(TopStarts(consumed)))

\* a root built with two children of different names, in stream order
C3_Witness ==
  /\ IsSome(doc.root)
  /\ Len(Unwrap(doc.root).children) = 2
  /\ Unwrap(doc.root).children[1].name = UpperA
  /\ Unwrap(doc.root).children[2].name = a

\* C4: text/CDATA accumulation.  Every built element's text is the
\* concatenation, in stream order, of the character-data events received
\* directly inside it, its cdata that of the CDATA events, and each is None
\* exactly when no event of its kind was received there.
C4_Accumulation ==
  /\ IsSome(doc.root) =>
       /\ ClosedTopStarts(consumed) # {}
       /\ ContentOfTree(Unwrap(doc.root)) =
            ContentOfStream(consumed, Max(ClosedTopStarts(consumed)))
  /\ stack # <<>> =>
       ContentOfTree(OpenTree(stack)) = ContentOfStream(consumed, Max(TopStarts(consumed)))

\* text, CDATA, text inside the root: text is both segments, cdata the one
C4_Witness ==
  /\ IsSome(doc.root)
  /\ Unwrap(doc.root).text = Some(<<"x", "z">>)
  /\ Unwrap(doc.root).cdata = Some(<<"y">>)
  /\ consumed = <<EvStartElement(None, a, <<>>), EvCharacters(Str("x")),
                  EvCData(Str("y")), EvCharacters(Str("z")), EvEndElement(None, a)>>

C6_CloseTagMatching ==
  [][(/\ stack # <<>>
      /\ Len(consumed') = Len(consumed) + 1
      /\ Last(consumed').kind = "EndElement")
     => IF Last(consumed').prefix = Top.prefix /\ Last(consumed').name = Top.name
          THEN /\ result' = "running"
               /\ Len(stack') = Len(stack) - 1
               /\ IF Len(stack) = 1
                    THEN doc'.root = Some(Top)
                    ELSE Last(Last(stack').children) = Top
          ELSE /\ result' = "Panic"
               /\ returned' = None
               /\ stack' = <<>>
               /\ doc'.root = None]_vars

\* a close with the element's prefix and name was accepted, then one whose
\* name differs only in letter case aborted the build
C6_Witness ==
  /\ result = "Panic"
  /\ returned = None
  /\ consumed = <<EvStartElement(None, a, <<>>), EvStartElement(None, UpperA, <<>>),
                  EvEndElement(None, UpperA), EvEndElement(None, UpperA)>>

\* C8: a failed parse yields no partial tree.  When the reader reports an
\* error, at whatever depth, Document::parse returns the error alone: no
\* Document is returned, no element built so far is kept, and the error is
\* the last event read.
C8_NoPartialTree ==
  /\ \A i \in 1..Len(consumed) : consumed[i].kind = "Error" => i = Len(consumed)
  /\ (consumed # <<>> /\ Last(consumed).kind = "Error") =>
       /\ result = "Err"
       /\ returned = None
       /\ stack = <<>>
       /\ doc.root = None

\* the reader failed two levels down, after a first child had been built
C8_Witness ==
  /\ result = "Err"
  /\ returned = None
  /\ consumed = <<EvStartElement(None, a, <<>>), EvStartElement(Some(p), a, <<>>),
                  EvEndElement(Some(p), a), EvStartElement(None, a, <<>>), EvError>>
\* no element of the tree has a prefix
RECURSIVE NoPrefix(_)
NoPrefix(e) == e.prefix = None /\ \A i \in 1..Len(e.children) : NoPrefix(e.children[i])

\* C1: round trip.  For a tree in which no element has a prefix, the events
\* Element::write emits, read back by Document::parse and Element::parse,
\* build a tree that is deep-equal to the one written.
C1_RoundTrip ==
  (result = "Ok" /\ IsSome(wdoc.root) /\ NoPrefix(Unwrap(wdoc.root))) =>
    /\ IsSome(Unwrap(returned).root)
    /\ ElementEq(Unwrap(Unwrap(returned).root), Unwrap(wdoc.root))

\* a prefix-free tree of three levels with attributes, an empty text, cdata
\* and two children has been written and parsed back
C1_Witness ==
  /\ result = "Ok"
  /\ IsSome(wdoc.root)
  /\ NoPrefix(Unwrap(wdoc.root))
  /\ Unwrap(wdoc.root).text = Some(EmptyString)
  /\ Unwrap(wdoc.root).cdata = Some(Str("y"))
  /\ Len(Unwrap(wdoc.root).children) = 2
  /\ Unwrap(wdoc.root).children[1].attributes # <<>>
  /\ Unwrap(wdoc.root).children[2].children # <<>>
  /\ IsSome(Unwrap(returned).root)

\* C2: prefix and name round-trip.  The start-tag and the end-tag that
\* Element::write emits for an element carry its prefix and its name, and the
\* element rebuilt from the emitted events has the same prefix and name.
C2_PrefixRoundTrip ==
  (result = "Ok" /\ IsSome(wdoc.root)) =>
    /\ IsSome(Unwrap(returned).root)
    /\ Unwrap(Unwrap(returned).root).prefix = Unwrap(wdoc.root).prefix
    /\ Unwrap(Unwrap(returned).root).name = Unwrap(wdoc.root).name
    /\ \A i \in 1..Len(out) :
         (out[i].kind \in {"StartElement", "EndElement"} /\ DepthBefore(out, i) = 0) =>
           out[i].prefix = Unwrap(wdoc.root).prefix /\ out[i].name = Unwrap(wdoc.root).name

\* the last event read is an end-tag that does not match the element that is
\* open when it arrives
MismatchedClose(s) ==
  LET n == Len(s)
      pre == SubSeq(s, 1, n - 1)
      open == {i \in 1..(n - 1) : pre[i].kind = "StartElement" /\ CloseOf(pre, i) = n}
  IN /\ s # <<>>
     /\ s[n].kind = "EndElement"
     /\ open # {}
     /\ s[n].prefix # s[Max(open)].prefix \/ s[n].name # s[Max(open)].name

\* C7, as claimed: every failure of Document::parse and Document::write_with,
\* a mismatched closing tag included, reaches the caller as an error result.
C7_AllFailuresReturned ==
  /\ (consumed # <<>> /\ Last(consumed).kind = "Error") => result = "Err"
  /\ sinkErr => wresult = "Err"
  /\ MismatchedClose(consumed) => result = "Err"

\* C7, amended: an error of the event source ends Document::parse with an
\* Err result, an error of the event sink ends Document::write_with with an
\* Err result, and neither call returns Err for another reason; a mismatched
\* closing tag is not returned as a result: Element::parse panics.
C7_FailuresReturnedOrPanic ==
  /\ (consumed # <<>> /\ Last(consumed).kind = "Error") <=> result = "Err"
  /\ sinkErr <=> wresult = "Err"
  /\ MismatchedClose(consumed) <=> result = "Panic"

\* the sink refused the end-tag of a child after accepting four events
C7_Witness ==
  /\ sinkErr
  /\ wresult = "Err"
  /\ Len(out) = 4
  /\ wstack = <<>>

\* the segments of a path, from the positions of its slashes
SlashAt(s) == <<0>> \o Sorted({i \in 1..Len(s) : s[i] = "/"}) \o <<Len(s) + 1>>
Segment(s, j) == SubSeq(s, SlashAt(s)[j] + 1, SlashAt(s)[j + 1] - 1)
NumSegments(s) == Len(SlashAt(s)) - 1

\* the element at a position of a tree
RECURSIVE ElemAt(_, _)
ElemAt(e, ref) == IF ref = <<>> THEN e ELSE ElemAt(e.children[Head(ref)], Tail(ref))

\* ref[1..j-1] is a position of e
RECURSIVE ValidRef(_, _)
ValidRef(e, ref) ==
  \/ ref = <<>>
  \/ Head(ref) \in 1..Len(e.children) /\ ValidRef(e.children[Head(ref)], Tail(ref))

\* the positions a descent along the segments of pth can end at: each step
\* goes to the first child, in child order, whose name is the segment
Descents(e, pth) ==
  {r \in [1..NumSegments(pth) -> 1..MaxKids] :
     /\ ValidRef(e, r)
     /\ \A j \in 1..Len(r) :
          LET at == ElemAt(e, SubSeq(r, 1, j - 1))
          IN /\ at.children[r[j]].name = Segment(pth, j)
             /\ \A m \in 1..(r[j] - 1) : at.children[m].name # Segment(pth, j)}

\* C9: path query descent.  find splits the path on '/' and goes, segment by
\* segment, to the first child whose name is the segment, the prefix playing
\* no part; it returns the element it ends at, and fails when the first
\* match at some level has no match for the next segment, whatever later
\* siblings hold.
C9_PathDescent ==
  IsSome(path) =>
    IF Descents(tree, Unwrap(path)) = {}
      THEN found.kind = "ElementNotFound"
      ELSE /\ found.kind = "Ok"
           /\ found.ref \in Descents(tree, Unwrap(path))
           /\ found.el = ElemAt(tree, found.ref)

\* "a/b" fails on a tree whose first child named a (it has a prefix) has no
\* child b while its second child named a has one
C9_Witness ==
  /\ path = Some(<<"a", "/", "b">>)
  /\ found.kind = "ElementNotFound"
  /\ Len(tree.children) = 2
  /\ tree.children[1].name = a
  /\ tree.children[1].prefix = Some(p)
  /\ tree.children[1].children = <<>>
  /\ tree.children[2].name = a
  /\ \E i \in 1..Len(tree.children[2].children) : tree.children[2].children[i].name = b

\* C10: when find fails, the ElementNotFound it returns carries the whole
\* path string the caller passed, at whatever depth the miss occurred, and
\* the tree is unchanged.
C10_NotFoundCarriesPath ==
  [][(path = None /\ path' # None) =>
       /\ tree' = tree
       /\ found'.kind = "ElementNotFound" => found'.t = Unwrap(path')]_vars

\* "a/b" failed at its second segment: a child a was found, no b under it
C10_Witness ==
  /\ path = Some(<<"a", "/", "b">>)
  /\ found.kind = "ElementNotFound"
  /\ found.t = <<"a", "/", "b">>
  /\ \E i \in 1..Len(tree.children) : tree.children[i].name = a

\* C11: an empty path resolves to the starting element itself: e.find("")
\* returns e, for every element e.
C11_EmptyPathIsSelf ==
  path = Some(EmptyString) => found = Ok(tree, <<>>)

\* the decimal numeral that text is, read by place value: the digits after
\* an optional sign, each weighted by its power of ten
PlaceValue(text) ==
  LET digits == IF Head(text) \in {"+", "-"} THEN Tail(text) ELSE text
      n == Len(digits)
      upTo[i \in 0..n] ==
        IF i = 0 THEN 0 ELSE upTo[i - 1] + DigitValue(digits[n + 1 - i]) * 10 ^ (i - 1)
  IN IF Head(text) = "-" THEN -upTo[n] ELSE upTo[n]
IsNumeral(text) ==
  /\ text # <<>>
  /\ LET digits == IF Head(text) \in {"+", "-"} THEN Tail(text) ELSE text
     IN digits # <<>> /\ \A i \in 1..Len(digits) : IsDigit(digits[i])
  /\ PlaceValue(text) >= I32Min /\ PlaceValue(text) <= I32Max

\* text converts to a value of type T
Converts(T, text) == T = "String" \/ IsNumeral(text)

\* C12: find_value outcomes.  find_value::<T>(path) fails with
\* ElementNotFound carrying the path when find(path) fails; returns None when
\* the resolved element has no text, whatever its cdata; returns Some(v) when
\* the resolved element's text converts to v; and fails with ValueFromStr
\* carrying exactly the resolved element's text when it does not convert.
C12_FindValueOutcomes ==
  answer.op = "find_value" =>
    LET r == find(tree, answer.path)
        res == answer.res
    IN IF r.kind # "Ok"
         THEN res.kind = "ElementNotFound" /\ res.t = answer.path
       ELSE IF r.el.text = None
         THEN res.kind = "OkNone"
       ELSE IF Converts(answer.T, Unwrap(r.el.text))
         THEN /\ res.kind = "OkSome"
              /\ IF answer.T = "String" THEN res.v = Unwrap(r.el.text)
                 ELSE res.v = PlaceValue(Unwrap(r.el.text))
       ELSE res.kind = "ValueFromStr" /\ res.t = Unwrap(r.el.text)

\* find_value::<i32>("a") on a tree whose first child a has no text but has
\* cdata "7", and whose second child a has text "12": the answer is None
C12_Witness ==
  /\ answer.op = "find_value"
  /\ answer.T = "i32"
  /\ answer.path = <<"a">>
  /\ answer.res.kind = "OkNone"
  /\ Len(tree.children) = 2
  /\ tree.children[1].name = a
  /\ tree.children[1].text = None
  /\ tree.children[1].cdata = Some(<<"7">>)
  /\ tree.children[2].text = Some(<<"1", "2">>)

\* the four outcomes of find_value are all produced
C12_SomeValue ==
  /\ answer.op = "find_value" /\ answer.T = "i32"
  /\ answer.res.kind = "OkSome" /\ answer.res.v = 12
C12_BadValue ==
  /\ answer.op = "find_value" /\ answer.T = "i32"
  /\ answer.res.kind = "ValueFromStr" /\ answer.res.t = <<"x">>

\* the direct children of e that satisfy the predicate, as a set of indexes
Satisfying(e, predicate) ==
  {i \in 1..Len(e.children) : Holds(predicate, e.children[i])}

\* C13: predicate search.  find_child(p) returns the first direct child, in
\* child order, that satisfies p, or None when no direct child does;
\* filter_children(p) yields exactly the direct children that satisfy p, each
\* once, in child order.  Neither returns a deeper descendant and neither
\* changes the tree.
C13_PredicateSearch ==
  [][(answer = NoAnswer /\ answer'.op \in {"find_child", "filter_children"}) =>
       LET sat == Satisfying(tree, answer'.predicate)
           res == answer'.res
       IN /\ tree' = tree
          /\ answer'.op = "find_child" =>
               IF sat = {} THEN res = None
               ELSE res = Some([ref |-> Min(sat), el |-> tree.children[Min(sat)]])
          /\ answer'.op = "filter_children" =>
               /\ Len(res) = Cardinality(sat)
               /\ {res[n].ref : n \in 1..Len(res)} = sat
               /\ \A n \in 1..(Len(res) - 1) : res[n].ref < res[n + 1].ref
               /\ \A n \in 1..Len(res) : res[n].el = tree.children[res[n].ref]]_vars

\* filter_children(|t| t.name == "a") yielded both children named a, the one
\* with a prefix first, as they stand in the tree
C13_Witness ==
  /\ answer.op = "filter_children"
  /\ answer.predicate = NameIs(a)
  /\ Len(answer.res) = 2
  /\ answer.res[1].ref = 1 /\ answer.res[1].el.prefix = Some(p)
  /\ answer.res[2].ref = 2 /\ answer.res[2].el.prefix = None

\* find_child(|t| t.name == "b") returned None on a tree where only a
\* grandchild is named b
C13_GrandchildNotFound ==
  /\ answer.op = "find_child"
  /\ answer.predicate = NameIs(Str("b"))
  /\ answer.res = None
  /\ \E i \in 1..Len(tree.children) :
       \E j \in 1..Len(tree.children[i].children) :
         tree.children[i].children[j].name = Str("b")

\* the document-start events of s received outside any element
TopDecls(s) ==
  LET D == Depths(s)
  IN {i \in 1..Len(s) : s[i].kind = "StartDocument" /\ D[i] = 0}

\* C14: declaration handling on parse.  A Document returned by
\* Document::parse has the version and the encoding carried by the stream's
\* document-start event; when the stream carries none, version is 1.0 and
\* encoding is "UTF-8", the values of a default-constructed Document.
C14_Declaration ==
  result = "Ok" =>
    LET decls == TopDecls(consumed)
        d == Unwrap(returned)
    IN IF decls = {}
         THEN /\ d.version = "Version10"
              /\ d.encoding = <<"U", "T", "F", "-", "8">>
              /\ d.version = DocumentDefault.version
              /\ d.encoding = DocumentDefault.encoding
         ELSE LET ev == consumed[Max(decls)]
              IN /\ ev.version = "xml::Version10" => d.version = "Version10"
                 /\ ev.version = "xml::Version11" => d.version = "Version11"
                 /\ d.encoding = ev.encoding

\* a stream that declares version 1.1 and an encoding other than UTF-8 was
\* parsed to the end
C14_Witness ==
  /\ result = "Ok"
  /\ Unwrap(returned).version = Version11
  /\ Unwrap(returned).encoding = Latin1
  /\ IsSome(Unwrap(returned).root)
  /\ consumed[1] = EvStartDocument(BaseVersion11, Latin1)

\* a stream without a document-start event was parsed to the end
C14_NoDeclaration ==
  /\ result = "Ok"
  /\ IsSome(Unwrap(returned).root)
  /\ TopDecls(consumed) = {}

\* What an element is to be written as, from the element alone: a start-tag
\* with its name and its attributes in stored order, keys verbatim; its text,
\* if set; its cdata, if set; its children in order; an end-tag.  An event is
\* described by its kind, name, attributes and character data.
Described(kind, name, attributes, s) ==
  [kind |-> kind, name |-> name, attributes |-> attributes, s |-> s]

RECURSIVE Emitted(_)
RECURSIVE EmittedAll(_)
Emitted(e) ==
  <<Described("StartElement", e.name,
              [i \in 1..Len(e.attributes) |->
                 [prefix |-> None, local_name |-> e.attributes[i].k,
                  value |-> e.attributes[i].v]],
              EmptyString)>>
  \o (IF e.text = None THEN <<>>
      ELSE <<Described("Characters", EmptyString, <<>>, Unwrap(e.text))>>)
  \o (IF e.cdata = None THEN <<>>
      ELSE <<Described("CData", EmptyString, <<>>, Unwrap(e.cdata))>>)
  \o EmittedAll(e.children)
  \o <<Described("EndElement", e.name, <<>>, EmptyString)>>
EmittedAll(es) ==
  IF es = <<>> THEN <<>> ELSE Emitted(Head(es)) \o EmittedAll(Tail(es))

\* the events the sink accepted, the declaration left out, described
HasDecl(s) == s # <<>> /\ s[1].kind = "StartDocument"
ElementEvents(s) ==
  LET t == IF HasDecl(s) THEN Tail(s) ELSE s
  IN [i \in 1..Len(t) |-> Described(t[i].kind, t[i].name, t[i].attributes, t[i].s)]

EmittedRoot(d) == IF d.root = None THEN <<>> ELSE Emitted(Unwrap(d.root))

IsPrefixOf(s, t) == Len(s) <= Len(t) /\ s = SubSeq(t, 1, Len(s))

\* C15: declaration emission on write.  write_with emits a declaration event
\* carrying the Document's version and encoding, before any element event, if
\* and only if document_decl is true; Document::write and Document's Display
\* always emit it and Element's Display never does; the element events are
\* those of the root in both cases.
C15_DeclarationEmission ==
  /\ \A i \in 2..Len(out) : out[i].kind # "StartDocument"
  /\ ~document_decl => ~HasDecl(out)
  /\ (document_decl /\ (out # <<>> \/ wresult = "Ok")) =>
       /\ HasDecl(out)
       /\ wdoc.version = "Version10" => out[1].version = "xml::Version10"
       /\ wdoc.version = "Version11" => out[1].version = "xml::Version11"
       /\ out[1].encoding = wdoc.encoding
  /\ wresult = "Ok" =>
       /\ entry \in {"write", "Document::fmt"} => HasDecl(out)
       /\ entry = "Element::fmt" => ~HasDecl(out)
       /\ ElementEvents(out) = EmittedRoot(wdoc)

\* write_with(.., true, ..) wrote a Document of version 1.1: the declaration,
\* then the root
C15_Witness ==
  /\ entry = "write_with"
  /\ document_decl
  /\ wresult = "Ok"
  /\ wdoc.version = Version11
  /\ out[1] = EvStartDocument(BaseVersion11, Latin1)
  /\ Len(out) >= 3

\* the same Document written without the declaration
C15_Suppressed ==
  /\ entry = "write_with"
  /\ ~document_decl
  /\ wresult = "Ok"
  /\ wdoc.version = Version11
  /\ out[1].kind = "StartElement"

\* an Element with a child was written through its Display impl
C15_ElementDisplay ==
  /\ entry = "Element::fmt"
  /\ wresult = "Ok"
  /\ Len(out) >= 4
  /\ out[1].kind = "StartElement"

\* a Document without a root was written by Document::write
C15_NoRoot ==
  /\ entry = "write"
  /\ wresult = "Ok"
  /\ wdoc.root = None
  /\ Len(out) = 1

\* an element with the order of its attributes forgotten: the attributes as
\* a set of key/value pairs, the children in their order
RECURSIVE Unordered(_)
Unordered(e) ==
  [prefix |-> e.prefix, name |-> e.name, text |-> e.text, cdata |-> e.cdata,
   attributes |-> {e.attributes[i] : i \in 1..Len(e.attributes)},
   children |-> [i \in 1..Len(e.children) |-> Unordered(e.children[i])]]

\* C16: element equality is deep structural equality.  Two elements are equal
\* if and only if their prefix, name, text and cdata are equal, their
\* attributes hold the same set of key/value pairs whatever the insertion
\* order, and their children have the same length and are pairwise equal in
\* the same order.
C16_DeepEquality ==
  answer.op = "eq" =>
    (answer.res <=> Unordered(tree) = Unordered(answer.other))

\* two elements whose attributes were inserted in different orders are equal
C16_Witness ==
  /\ answer.op = "eq"
  /\ answer.res
  /\ tree.attributes = EqAttrs
  /\ answer.other.attributes = EqAttrsReordered

\* two elements with the same two unequal children in swapped order are
\* unequal
C16_SwappedChildren ==
  /\ answer.op = "eq"
  /\ ~answer.res
  /\ Len(tree.children) = 2
  /\ tree.children[1] # tree.children[2]
  /\ ~ElementEq(tree.children[1], tree.children[2])
  /\ answer.other = [tree EXCEPT !.children = <<tree.children[2], tree.children[1]>>]

\* two elements that differ only in a grandchild's cdata are unequal
C16_DeepDifference ==
  /\ answer.op = "eq"
  /\ ~answer.res
  /\ Len(tree.children) = 1 /\ Len(tree.children[1].children) = 1
  /\ Len(answer.other.children) = 1 /\ Len(answer.other.children[1].children) = 1
  /\ tree.children[1].children[1].cdata = None
  /\ answer.other =
       [tree EXCEPT !.children[1].children[1].cdata = Some(Str("x"))]

\* C17: emit order.  Element::write emits one start-tag with the element's
\* name and all its attributes in stored order, keys verbatim; then one
\* character-data event with the exact text if and only if text is set; then
\* one CDATA event with the exact cdata if and only if cdata is set; then the
\* events of each child in child order; then one end-tag.  What the sink has
\* accepted is at every moment the beginning of that sequence, and all of it
\* once the write has returned Ok.
C17_EmitOrder ==
  /\ wresult \in {"running", "Ok", "Err"} =>
       IsPrefixOf(ElementEvents(out), EmittedRoot(wdoc))
  /\ wresult = "Ok" => Len(ElementEvents(out)) = Len(EmittedRoot(wdoc))

\* an element with attributes, text and cdata that has a child was written
\* as the first child of the root, a second child after it
C17_Witness ==
  /\ wresult = "Ok"
  /\ IsSome(wdoc.root)
  /\ Len(Unwrap(wdoc.root).children) = 2
  /\ LET c == Unwrap(wdoc.root).children[1]
     IN /\ Len(c.attributes) = 2
        /\ IsSome(c.text) /\ IsSome(c.cdata)
        /\ c.children # <<>>
        /\ out[2 + (IF HasDecl(out) THEN 1 ELSE 0)].kind = "StartElement"
        /\ out[3 + (IF HasDecl(out) THEN 1 ELSE 0)].kind = "Characters"
        /\ out[4 + (IF HasDecl(out) THEN 1 ELSE 0)].kind = "CData"
        /\ out[5 + (IF HasDecl(out) THEN 1 ELSE 0)].kind = "StartElement"

\* C18: no leakage between nesting levels.  A character-data or CDATA event
\* received while elements are open is accumulated only into the innermost
\* open element: every enclosing open element, every child already built and
\* the Document are left exactly as they were, and of the innermost element
\* only the field of the event's kind changes, by having the event's string
\* appended.
C18_NoLeakage ==
  [][(/\ stack # <<>>
      /\ Len(consumed') = Len(consumed) + 1
      /\ Last(consumed').kind \in {"Characters", "CData"})
     => LET n == Len(stack)
            ev == Last(consumed')
            was == stack[n]
            now == stack'[n]
        IN /\ Len(stack') = n
           /\ \A i \in 1..(n - 1) : stack'[i] = stack[i]
           /\ doc' = doc
           /\ now.children = was.children
           /\ now.prefix = was.prefix /\ now.name = was.name
           /\ now.attributes = was.attributes
           /\ IF ev.kind = "Characters"
                THEN /\ now.cdata = was.cdata
                     /\ now.text =
                          Some((IF was.text = None THEN <<>> ELSE was.text[1]) \o ev.s)
                ELSE /\ now.text = was.text
                     /\ now.cdata =
                          Some((IF was.cdata = None THEN <<>> ELSE was.cdata[1]) \o ev.s)]_vars

\* text x in the root, then text z and CDATA y in its open child: the root
\* still holds x alone
C18_Witness ==
  /\ Len(stack) = 2
  /\ stack[1].text = Some(<<"x">>)
  /\ stack[1].cdata = None
  /\ stack[2].text = Some(<<"z">>)
  /\ stack[2].cdata = Some(<<"y">>)
  /\ Len(consumed) = 5
  /\ Last(consumed).kind = "CData"

\* C19: root selection.  After a successful Document::parse the Document's
\* root is the subtree built from the first top-level start-tag of the
\* stream; a later top-level start-tag never replaces it.
C19_FirstRootKept ==
  (result = "Ok" /\ TopStarts(consumed) # {}) =>
    /\ IsSome(Unwrap(returned).root)
    /\ TagsOfTree(Unwrap(Unwrap(returned).root)) =
         TagsOfStream(consumed, Min(TopStarts(consumed)))

\* the start-tag of s that the end-tag at the end of s closes
OpenedBy(s) ==
  LET D == Depths(s)
  IN Max({i \in 1..(Len(s) - 1) :
            s[i].kind = "StartElement" /\ D[i] = D[Len(s) + 1]})

\* C20: exact consumption.  Every handler reads exactly one event, so the
\* caller's next read is the event that follows; the builds in progress are
\* exactly the start-tags of the stream not yet closed, so an end-tag of a
\* nested child ends that child's build alone; and the build of an element
\* returns on the step that reads the end-tag matching its start-tag at the
\* same depth, having read the events of its own segment of the stream and
\* not one beyond.
C20_ExactConsumption ==
  [][result' = "running" =>
       LET s == consumed'
           n == Len(s)
       IN /\ s = consumed \/ (n = Len(consumed) + 1 /\ SubSeq(s, 1, n - 1) = consumed)
          /\ Len(stack') = Depths(s)[n + 1]
          /\ Len(stack') >= Len(stack) - 1
          /\ Len(stack') < Len(stack) =>
               /\ n = Len(consumed) + 1
               /\ s[n].kind = "EndElement"
               /\ CloseOf(s, OpenedBy(s)) = n
               /\ s[OpenedBy(s)].prefix = stack[Len(stack)].prefix
               /\ s[OpenedBy(s)].name = stack[Len(stack)].name
               /\ TagsOfTree(stack[Len(stack)]) = TagsOfStream(s, OpenedBy(s))]_vars

\* a child was built and its end-tag read; the event after it was read by the
\* parent, still open, which started a second child with it
C20_Witness ==
  /\ Len(stack) = 2
  /\ Len(stack[1].children) = 1
  /\ stack[1].children[1].name = UpperA
  /\ consumed = <<EvStartElement(None, a, <<>>), EvStartElement(None, UpperA, <<>>),
                  EvEndElement(None, UpperA), EvStartElement(None, a, <<>>)>>

\* the key an attribute of a start-tag event is to be stored under
KeyOf(attr) ==
  IF attr.prefix = None THEN attr.local_name
  ELSE attr.prefix[1] \o <<":">> \o attr.local_name

\* the value the map m holds for a key it has
ValueAt(m, key) == m[CHOOSE i \in 1..Len(m) : m[i].k = key].v

\* C21: attribute key normalization on build.  On every start-tag event, at
\* the top level (the root) and inside an element alike, each attribute of
\* the event is stored in the new element under "prefix:localname" when it
\* carries a prefix and under its local name otherwise; the stored value is
\* the value of the event's attribute (of the last one, when several have
\* the same key), and the element has no other key.
C21_AttributeKeys ==
  [][(/\ result = "running"
      /\ Len(consumed') = Len(consumed) + 1
      /\ Last(consumed').kind = "StartElement")
     => LET attrs == Last(consumed').attributes
            new == stack'[Len(stack')]
            m == new.attributes
        IN /\ Len(stack') = Len(stack) + 1
           /\ \A i \in 1..Len(attrs) :
                /\ \E j \in 1..Len(m) : m[j].k = KeyOf(attrs[i])
                /\ (\A l \in (i + 1)..Len(attrs) : KeyOf(attrs[l]) # KeyOf(attrs[i]))
                     => ValueAt(m, KeyOf(attrs[i])) = attrs[i].value
           /\ \A j \in 1..Len(m) : \E i \in 1..Len(attrs) : m[j].k = KeyOf(attrs[i])]_vars

\* a root and a nested element, each built from a start-tag that carries an
\* attribute k and an attribute p:k
C21_Witness ==
  /\ Len(stack) = 2
  /\ \A i \in 1..2 :
       /\ \E j \in 1..Len(stack[i].attributes) :
            stack[i].attributes[j] = [k |-> <<"p", ":", "k">>, v |-> <<"2">>]
       /\ \E j \in 1..Len(stack[i].attributes) : stack[i].attributes[j].k = <<"k">>
  /\ Len(consumed) = 2

\* the writes made to an attribute map, from its history: the position of the
\* first and of the last write of a key
FirstWrite(W, key) == Min({i \in 1..Len(W) : W[i].k = key})
LastWrite(W, key) == Max({i \in 1..Len(W) : W[i].k = key})

\* C22: attribute map invariant.  After any sequence of insertions, by the
\* tree builder from a start-tag's attributes or by ElementBuilder::attr, the
\* keys of an element's attributes are unique, they are the keys that were
\* written, each holds the value of its last write, and they stand (and are
\* emitted by Element::write) in the order in which each was first written.
C22_AttributeMap ==
  answer.op = "attr" =>
    LET W == answer.writes
        m == tree.attributes
        emitted == WStartElement(tree).attributes
    IN /\ \A i, j \in 1..Len(m) : m[i].k = m[j].k => i = j
       /\ {m[i].k : i \in 1..Len(m)} = {W[i].k : i \in 1..Len(W)}
       /\ \A j \in 1..Len(m) : m[j].v = W[LastWrite(W, m[j].k)].v
       /\ \A i, j \in 1..Len(m) :
            i < j => FirstWrite(W, m[i].k) < FirstWrite(W, m[j].k)
       /\ Len(emitted) = Len(m)
       /\ \A j \in 1..Len(m) :
            emitted[j].local_name = m[j].k /\ emitted[j].value = m[j].v

\* k = "1" and p:k = "2" were inserted, then k = "2": k stays first, with the
\* value 2
C22_Witness ==
  /\ answer.op = "attr"
  /\ answer.writes = <<[k |-> <<"k">>, v |-> <<"1">>],
                       [k |-> <<"p", ":", "k">>, v |-> <<"2">>],
                       [k |-> <<"k">>, v |-> <<"2">>]>>
  /\ tree.attributes = <<[k |-> <<"k">>, v |-> <<"2">>],
                         [k |-> <<"p", ":", "k">>, v |-> <<"2">>]>>

\* the kinds of event that carry nothing for the tree
Ignorable ==
  {"StartDocument", "EndDocument", "ProcessingInstruction", "Comment", "Whitespace"}

\* C23: ignorable events leave the tree unchanged.  A document-start,
\* document-end, processing-instruction, comment or whitespace event read
\* while an element is being built changes no open element and nothing else
\* of the parse; so a root whose start-tag and end-tag are separated only by
\* such events, or by nothing, is built with no children, no text and no
\* cdata, equal to the element of the start-tag alone.
C23_IgnorableEvents ==
  [][/\ (/\ stack # <<>>
         /\ Len(consumed') = Len(consumed) + 1
         /\ Last(consumed').kind \in Ignorable)
        => /\ stack' = stack
           /\ doc' = doc
           /\ result' = result
           /\ returned' = returned
     /\ IsSome(doc'.root) =>
          LET s == consumed'
              i == Max(ClosedTopStarts(s))
              root == Unwrap(doc'.root)
          IN (\A m \in (i + 1)..(CloseOf(s, i) - 1) : s[m].kind \in Ignorable)
               => /\ root.children = <<>>
                  /\ root.text = None
                  /\ root.cdata = None
                  /\ root.prefix = s[i].prefix
                  /\ root.name = s[i].name
                  /\ ElementEq(root, ElementFromStart(s[i]))]_vars

\* a root built from a start-tag, a processing instruction, whitespace, a
\* comment and the end-tag
C23_Witness ==
  /\ IsSome(doc.root)
  /\ Unwrap(doc.root) = ElementNew(Str("a"))
  /\ consumed = <<EvStartElement(None, Str("a"), <<>>), Ev("ProcessingInstruction"),
                  Ev("Whitespace"), Ev("Comment"), EvEndElement(None, Str("a"))>>

\* a document-start and a document-end event read inside an open element
C23_DeclInside ==
  /\ Len(stack) = 1
  /\ Len(consumed) = 3
  /\ consumed[2].kind = "StartDocument"
  /\ consumed[3].kind = "EndDocument"

\* some element of the tree is named ""
RECURSIVE HasEmptyName(_)
HasEmptyName(e) ==
  e.name = <<>> \/ \E i \in 1..Len(e.children) : HasEmptyName(e.children[i])

\* the path has a leading, a trailing or a doubled '/'
HasEmptySegment(pth) ==
  /\ pth # <<>>
  /\ \/ pth[1] = "/"
     \/ pth[Len(pth)] = "/"
     \/ \E i \in 1..(Len(pth) - 1) : pth[i] = "/" /\ pth[i + 1] = "/"

NumSlashes(pth) == Cardinality({i \in 1..Len(pth) : pth[i] = "/"})

\* C24: empty path segments are literal.  Every '/' of the path separates two
\* segments, an empty one included, and each segment is matched as a tag name
\* at its own level: an element find returns lies one level down per segment,
\* under elements named as the segments are, "" for an empty one; so in a tree
\* with no element named "" a path with a leading, trailing or doubled '/'
\* fails with ElementNotFound.
C24_EmptySegmentsLiteral ==
  IsSome(path) =>
    LET pth == Unwrap(path)
    IN /\ (HasEmptySegment(pth) /\ ~HasEmptyName(tree)) =>
            found.kind = "ElementNotFound"
       /\ found.kind = "Ok" =>
            /\ Len(found.ref) = NumSlashes(pth) + 1
            /\ \A j \in 1..Len(found.ref) :
                 ElemAt(tree, SubSeq(found.ref, 1, j)).name = Segment(pth, j)

\* find("a//b") fails on a tree where a child a has a child b
C24_Witness ==
  /\ path = Some(<<"a", "/", "/", "b">>)
  /\ found.kind = "ElementNotFound"
  /\ ~HasEmptyName(tree)
  /\ find(tree, <<"a", "/", "b">>).kind = "Ok"
  /\ find(tree, <<"a">>).kind = "Ok"

\* find("a//b") succeeds where the child a has a child named "" with a child b
C24_EmptyNameMatched ==
  /\ path = Some(<<"a", "/", "/", "b">>)
  /\ found.kind = "Ok"
  /\ found.ref = <<1, 1, 1>>
  /\ found.el.name = <<"b">>

\* find("/a") and find("a/") fail where find("a") succeeds
C24_LeadingSlash ==
  /\ path = Some(<<"/", "a">>)
  /\ found.kind = "ElementNotFound"
  /\ find(tree, <<"a">>).kind = "Ok"
C24_TrailingSlash ==
  /\ path = Some(<<"a", "/">>)
  /\ found.kind = "ElementNotFound"
  /\ find(tree, <<"a">>).kind = "Ok"

\* the child as the caller's assignment leaves it
Assigned(el, modification) ==
  [prefix |-> el.prefix,
   name |-> IF modification.field = "name" THEN modification.s ELSE el.name,
   attributes |-> el.attributes,
   children |-> el.children,
   text |-> IF modification.field = "text" THEN <<modification.s>> ELSE el.text,
   cdata |-> el.cdata]

\* the predicate under which a child so assigned is found again
FindsAssigned(modification) ==
  IF modification.field = "name" THEN NameIs(modification.s) ELSE HasText

\* C25: mutable search variants.  find_child_mut(p) and filter_children_mut(p)
\* select the same children, in the same order, as find_child(p) and
\* filter_children(p) do on the same tree; an assignment made through a
\* returned reference changes that child alone, the parent's own fields, the
\* number and order of its children and every other child staying as they
\* were, and a later find_child or filter_children sees it.
C25_MutableVariants ==
  answer.op \in {"find_child_mut", "filter_children_mut"} =>
    LET old == answer.before
        sat == Satisfying(old, answer.predicate)
        sel == {answer.res[n] : n \in 1..Len(answer.res)}
    IN /\ answer.op = "find_child_mut" =>
            /\ sel = IF sat = {} THEN {} ELSE {Min(sat)}
            /\ answer.res = (IF find_child(old, answer.predicate) = 0 THEN <<>>
                             ELSE <<find_child(old, answer.predicate)>>)
       /\ answer.op = "filter_children_mut" =>
            /\ sel = sat
            /\ answer.res = filter_children(old, answer.predicate)
       /\ tree.prefix = old.prefix /\ tree.name = old.name
       /\ tree.attributes = old.attributes
       /\ tree.text = old.text /\ tree.cdata = old.cdata
       /\ Len(tree.children) = Len(old.children)
       /\ \A i \in 1..Len(old.children) :
            tree.children[i] = IF i \in sel
                                 THEN Assigned(old.children[i], answer.modification)
                                 ELSE old.children[i]
       /\ \A i \in sel :
            /\ \E n \in 1..Len(filter_children(tree, FindsAssigned(answer.modification))) :
                 filter_children(tree, FindsAssigned(answer.modification))[n] = i
            /\ find_child(tree, FindsAssigned(answer.modification)) <= i
            /\ find_child(tree, FindsAssigned(answer.modification)) # 0

\* filter_children_mut(|t| t.name == "a") yielded the first and the second
\* child, both were given the text "4", and the children stand as before
C25_Witness ==
  /\ answer.op = "filter_children_mut"
  /\ answer.predicate = NameIs(Str("a"))
  /\ answer.modification.field = "text"
  /\ answer.res = <<1, 2>>
  /\ answer.before.children[2].text = None
  /\ tree.children[1].text = Some(<<"4">>)
  /\ tree.children[2].text = Some(<<"4">>)
  /\ tree.children[1].prefix # tree.children[2].prefix

\* find_child_mut(|t| t.name == "a") returned the second child, which was
\* renamed b; the first child, named b already, is as it was
C25_FindChildMutRenamed ==
  /\ answer.op = "find_child_mut"
  /\ answer.modification.field = "name"
  /\ answer.res = <<2>>
  /\ answer.before.children[2].name = <<"a">>
  /\ tree.children[2].name = <<"b">>
  /\ tree.children[1] = answer.before.children[1]

C26_ReadsAfterEnd ==
  /\ Ended
  /\ Last(consumed).kind = "EndDocument"
  /\ stack # <<>>
  /\ result = "running"
  /\ rereads = 1

\* the number of elements of the tree t
RECURSIVE NumElements(_)
NumElements(t) ==
  LET RECURSIVE Sum(_)
      Sum(i) == IF i = 0 THEN 0 ELSE NumElements(t.children[i]) + Sum(i - 1)
  IN 1 + Sum(Len(t.children))

StartTags(s) == SelectSeq(s, LAMBDA ev : ev.kind = "StartElement")
EndTags(s) == SelectSeq(s, LAMBDA ev : ev.kind = "EndElement")

\* the start-tags of s that no end-tag of s has closed, the most recent last,
\* every end-tag closing the most recent one open before it
RECURSIVE Unclosed(_)
Unclosed(s) ==
  IF s = <<>> THEN <<>>
  ELSE LET open == Unclosed(SubSeq(s, 1, Len(s) - 1))
           ev == s[Len(s)]
       IN IF ev.kind = "StartElement" THEN Append(open, ev)
          ELSE IF ev.kind = "EndElement" /\ open # <<>> THEN SubSeq(open, 1, Len(open) - 1)
          ELSE open

\* no prefix of s has more end-tags than start-tags, and every end-tag has
\* the name of the most recent start-tag still unclosed before it
WellNested(s) ==
  \A n \in 1..Len(s) :
    /\ Len(StartTags(SubSeq(s, 1, n))) >= Len(EndTags(SubSeq(s, 1, n)))
    /\ s[n].kind = "EndElement" =>
         LET open == Unclosed(SubSeq(s, 1, n - 1))
         IN /\ open # <<>>
            /\ open[Len(open)].name = s[n].name
            /\ open[Len(open)].prefix = s[n].prefix

\* s has one start-tag and one end-tag for each element of t, and its last
\* event is the end-tag that closes its first start-tag
Balanced(s, t) ==
  /\ Len(StartTags(s)) = NumElements(t)
  /\ Len(EndTags(s)) = NumElements(t)
  /\ s[Len(s)].kind = "EndElement"
  /\ Unclosed(SubSeq(s, 1, Len(s) - 1)) = <<StartTags(s)[1]>>
  /\ StartTags(s)[1].name = t.name
  /\ s[Len(s)].name = t.name

\* C27: well-nested output.  What Element::write has emitted is at every
\* moment well nested; when it has returned Ok, the sink never having failed,
\* the events hold exactly one start-tag and one end-tag per element of the
\* tree and end with the end-tag of the element written first.  When the sink
\* fails on an event, that event is not written, the write returns Err, and
\* nothing is written afterwards.
C27_WellNestedOutput ==
  [][/\ WellNested(out')
     /\ (wresult' = "Ok" /\ IsSome(wdoc.root)) => Balanced(out', Unwrap(wdoc.root))
     /\ (sinkErr' /\ ~sinkErr) => (out' = out /\ wresult' = "Err" /\ wstack' = <<>>)
     /\ sinkErr => (out' = out /\ sinkErr' /\ wresult' = "Err")]_vars

\* a root A with two children a, the first of which has a child of its own,
\* has been written to a sink that accepted every event
C27_Witness ==
  /\ wresult = "Ok"
  /\ ~sinkErr
  /\ IsSome(wdoc.root)
  /\ Unwrap(wdoc.root).name = UpperA
  /\ Len(Unwrap(wdoc.root).children) = 2
  /\ Unwrap(wdoc.root).children[1].name = a
  /\ Unwrap(wdoc.root).children[1].children # <<>>
  /\ Len(StartTags(out)) = 4
  /\ out[Len(out)] = EvEndElement(None, UpperA)

\* the sink failed on an event inside a child: the start-tags of the root and
\* of the child stay unclosed, and the parse of what was written has nothing
\* to read
C27_SinkFailed ==
  /\ sinkErr
  /\ wresult = "Err"
  /\ Len(Unclosed(out)) = 2
  /\ wstack = <<>>
====
